---- MODULE Spec2Model ----
(***************************************************************************)
(* Model of the blog application in src/main.py: the three tables          *)
(* (user_details, blog_posts, comments), the Flask-Login session of one    *)
(* browser, and one action per route handler.  Every handler is one step,  *)
(* except register: its email lookup and its insert are two steps, so that *)
(* registrations in flight together interleave between the two.            *)
(***************************************************************************)
EXTENDS Integers, FiniteSets, Sequences, Bags, TLC

(* ------------------------------ bounds -------------------------------- *)
\* register requests between their email lookup and their insert
MaxInFlight == 2
\* largest BlogPost id
MaxPosts == 2
\* rows of the comments table
MaxComments == 1

(* ------------------------------ inputs -------------------------------- *)
Methods == {"GET", "POST"}
Names == {"ann"}
Emails == {"a@x.io", "b@x.io"}
EmailInputs == Emails \cup {"nomail"}
Passwords == {"pw1", "pw2"}
Salts == {1}
Titles == {"T", "T2"}
Subtitles == {"S"}
Bodies == {"B"}
ImgUrls == {"http://x/y.png"}
CommentTexts == {"hi"}
CommentInputs == CommentTexts \cup {""}
PostIds == 1..MaxPosts
\* what date.today() can return when a request is served: day 0 is January 31, 2026
Days == {0, 1}

(* ------------------------- program constants -------------------------- *)
\* admin_only compares current_user.get_id() with "1"
AdminId == 1
\* AnonymousUserMixin.get_id() is None; no '_user_id' in the session
Anonymous == 0
\* a nullable foreign key column holding NULL
NULL == 0

VARIABLES users, posts, comments, session, pending, req, resp

vars == <<users, posts, comments, session, pending, req, resp>>

(* ----------------------------- responses ------------------------------ *)
Response(status, to, post_id, flash) ==
    [status |-> status, to |-> to, post_id |-> post_id, flash |-> flash]

\* render_template(template)
Render(template, flash) == Response(200, template, 0, flash)
\* redirect(url_for(endpoint))
Redirect(endpoint, flash) == Response(302, endpoint, 0, flash)
\* redirect(url_for("show_post", post_id=post_id))
RedirectPost(post_id) == Response(302, "show_post", post_id, "")
\* abort(403)
Abort403 == Response(403, "", 0, "")
\* an exception that no handler catches: the generic server error page
Fault == Response(500, "", 0, "")
\* the handler has not returned yet
InProgress == Response(0, "", 0, "")

NoForm == [none |-> TRUE]

Request(op, method, post_id, form) ==
    [op |-> op, method |-> method, post_id |-> post_id, form |-> form, day |-> 0]

\* a request served on the given day
RequestOn(day, op, method, post_id, form) ==
    [op |-> op, method |-> method, post_id |-> post_id, form |-> form, day |-> day]

\* between requests; deleted is the id of the post the request that has just
\* returned deleted (the browser still holds that delete link), else 0
Idle(deleted) == Request("idle", "GET", deleted, NoForm)

(* ------------------------------ helpers ------------------------------- *)
Ids(rows) == {r.id : r \in rows}

Max(S) == CHOOSE m \in S : \A n \in S : n <= m

\* INTEGER PRIMARY KEY without AUTOINCREMENT: one more than the largest id
NextId(rows) == IF rows = {} THEN 1 ELSE Max(Ids(rows)) + 1

\* Model.query.get(id), used where the row exists
Get(rows, id) == CHOOSE r \in rows : r.id = id

\* User.query.filter_by(email=...)
UserByEmail(email) == {u \in users : u.email = email}

EmailUnique_off(email) == TRUE

\* the unique=True constraint on user_details.email, checked by the insert
EmailUnique(email) == UserByEmail(email) = {}

\* the unique=True constraint on blog_posts.title, checked by insert and update
TitleUnique(title, except_id) == \A p \in posts : p.title = title => p.id = except_id

\* load_user + current_user: the session's user id if it resolves to a row
current_user == IF session \in Ids(users) THEN session ELSE Anonymous

(* -------------------------- password hashing -------------------------- *)
PwCode(password) ==
    CASE password = "pw1" -> 1
      [] password = "pw2" -> 2
      [] OTHER -> 0

Digest(salt, password) == (salt * 5 + PwCode(password) * 3) % 17

generate_password_hash(password, salt) ==
    [method |-> "pbkdf2:sha256", salt |-> salt, digest |-> Digest(salt, password)]

check_password_hash_any(pwhash, password) == TRUE

check_password_hash(pwhash, password) == Digest(pwhash.salt, password) = pwhash.digest

(* --------------------------------- date ------------------------------- *)
\* date.today().strftime("%B %d, %Y") on day d, counted from January 31, 2026
strftime(d) ==
    LET n == d + 31
        month == IF n <= 31 THEN "January" ELSE "February"
        dd == IF n <= 31 THEN n ELSE n - 31
    IN  <<month, dd \div 10, dd % 10, 2026>>

(* --------------------------- form validation -------------------------- *)
validate_on_submit(method, fieldsValid) == method = "POST" /\ fieldsValid

RegisterFormValid(form) ==
    /\ form.name # ""
    /\ form.email \in Emails
    /\ form.password # ""
    /\ form.confirm_password # ""

LoginFormValid(form) == form.email # "" /\ form.password # ""

CreatePostFormValid(form) ==
    /\ form.title # ""
    /\ form.subtitle # ""
    /\ form.img_url \in ImgUrls
    /\ form.body # ""

CommentFormValid(form) == form.comment # ""

RegisterForms ==
    [name : Names, email : EmailInputs, password : {"pw1"}, confirm_password : Passwords]
LoginForms == [email : Emails, password : Passwords] \cup {[email |-> "a@x.io", password |-> ""]}
CreatePostForms ==
    [title : Titles, subtitle : Subtitles, img_url : ImgUrls, body : Bodies]
        \cup [title : {"T"}, subtitle : Subtitles, img_url : {"nourl"}, body : Bodies]
CommentForms == [comment : CommentInputs]

\* a GET carries no form data: one representative form stands for it
FormsOf(method, forms) == IF method = "POST" THEN forms ELSE {CHOOSE f \in forms : TRUE}

\* a GET of the post form changes nothing: one representative day stands for it
DaysOf(method) == IF method = "POST" THEN Days ELSE {0}

(* ------------------------------- Init --------------------------------- *)
Init ==
    /\ users = {}
    /\ posts = {}
    /\ comments = {}
    /\ session = Anonymous
    /\ pending = EmptyBag
    /\ req = Idle(0)
    /\ resp = InProgress

\* no handler is running: the last response has been delivered
IsIdle == req.op = "idle"

(* --------------------------- admin_only ------------------------------- *)
\* variants of the definitions below, each with one plausible slip
admin_only_any_user == current_user # Anonymous

admin_only_off == TRUE

\* my_wrapper_function: the wrapped handler runs only for user id "1"
admin_only == current_user = AdminId

is_anonymous_never == FALSE

\* current_user.is_anonymous
is_anonymous == current_user = Anonymous

PasswordsMatch_always(form) == TRUE

\* register_form.password.data == register_form.confirm_password.data
PasswordsMatch(form) == form.password = form.confirm_password

Edited_restamped(post, form, day) ==
    [post EXCEPT !.title = form.title,
                 !.subtitle = form.subtitle,
                 !.img_url = form.img_url,
                 !.body = form.body,
                 !.date = strftime(day)]

\* edit_post's four assignments to the loaded post
Edited(post, form, day) ==
    [post EXCEPT !.title = form.title,
                 !.subtitle = form.subtitle,
                 !.img_url = form.img_url,
                 !.body = form.body]

Orphaned_cascade(rows, post_id) == {r \in rows : r.blog_id # post_id}

\* db.session.delete(post) with no cascade on blog_comments: the ORM sets the
\* blog_id of the post's comments to NULL before it deletes the post
Orphaned(rows, post_id) ==
    {IF r.blog_id = post_id THEN [r EXCEPT !.blog_id = NULL] ELSE r : r \in rows}

(* ----------------------------- handlers ------------------------------- *)
get_all_posts ==
    /\ IsIdle
    /\ req' = Request("get_all_posts", "GET", 0, NoForm)
    /\ resp' = Render("index.html", "")
    /\ UNCHANGED <<users, posts, comments, session, pending>>

\* register up to the point where the new row is about to be inserted
register(method, form) ==
    /\ IsIdle
    /\ req' = Request("register", method, 0, form)
    /\ IF validate_on_submit(method, RegisterFormValid(form))
       THEN IF UserByEmail(form.email) = {}
            THEN IF PasswordsMatch(form)
                 THEN /\ BagCardinality(pending) < MaxInFlight
                      /\ pending' = pending (+) SetToBag({form})
                      /\ resp' = InProgress
                 ELSE /\ resp' = Render("register.html", "Check the password you have re-entered")
                      /\ UNCHANGED pending
            ELSE /\ resp' = Redirect("login", "Your Email is already registered, Try logging in")
                 /\ UNCHANGED pending
       ELSE /\ resp' = Render("register.html", "")
            /\ UNCHANGED pending
    /\ UNCHANGED <<users, posts, comments, session>>

\* register from db.session.add(new_user) on: insert, commit, login_user, redirect
register_commit(form, salt) ==
    /\ IsIdle
    /\ BagIn(form, pending)
    /\ LET new_user == [id |-> NextId(users), name |-> form.name, email |-> form.email,
                        password |-> generate_password_hash(form.password, salt)]
       IN  /\ req' = Request("register_commit", "POST", 0, form)
           /\ IF EmailUnique(form.email)
              THEN /\ users' = users \cup {new_user}
                   /\ session' = new_user.id
                   /\ resp' = Redirect("get_all_posts", "")
              ELSE /\ resp' = Fault
                   /\ UNCHANGED <<users, session>>
    /\ pending' = pending (-) SetToBag({form})
    /\ UNCHANGED <<posts, comments>>

login(method, form) ==
    /\ IsIdle
    /\ req' = Request("login", method, 0, form)
    /\ IF validate_on_submit(method, LoginFormValid(form))
       THEN IF UserByEmail(form.email) # {}
            THEN LET user == CHOOSE u \in UserByEmail(form.email) : TRUE
                 IN  IF check_password_hash(user.password, form.password)
                     THEN /\ session' = user.id
                          /\ resp' = Redirect("get_all_posts", "")
                     ELSE /\ resp' = Render("login.html", "Check the password you have entered")
                          /\ UNCHANGED session
            ELSE /\ resp' = Render("login.html", "This email doesn't, Try registering first")
                 /\ UNCHANGED session
       ELSE /\ resp' = Render("login.html", "")
            /\ UNCHANGED session
    /\ UNCHANGED <<users, posts, comments, pending>>

logout ==
    /\ IsIdle
    /\ req' = Request("logout", "GET", 0, NoForm)
    /\ session' = Anonymous
    /\ resp' = Redirect("get_all_posts", "")
    /\ UNCHANGED <<users, posts, comments, pending>>

show_post(method, post_id, form) ==
    /\ IsIdle
    /\ req' = Request("show_post", method, post_id, form)
    /\ IF validate_on_submit(method, CommentFormValid(form))
       THEN IF ~is_anonymous
            THEN LET new_comment ==
                         [id |-> NextId(comments), comment |-> form.comment,
                          user_id |-> current_user,
                          blog_id |-> IF post_id \in Ids(posts) THEN post_id ELSE NULL]
                 IN  /\ Cardinality(comments) < MaxComments
                     /\ comments' = comments \cup {new_comment}
                     /\ resp' = RedirectPost(post_id)
            ELSE /\ resp' = Redirect("register",
                                     "You need to get in to our family before making comments")
                 /\ UNCHANGED comments
       ELSE /\ \E status \in (IF post_id \in Ids(posts) THEN {200} ELSE {200, 500}) :
                  resp' = Response(status, IF status = 200 THEN "post.html" ELSE "", 0, "")
            /\ UNCHANGED comments
    /\ UNCHANGED <<users, posts, session, pending>>

about ==
    /\ IsIdle
    /\ req' = Request("about", "GET", 0, NoForm)
    /\ resp' = Render("about.html", "")
    /\ UNCHANGED <<users, posts, comments, session, pending>>

\* send_mail either returns or raises (SMTP unreachable, login refused)
contact(method, sent) ==
    /\ IsIdle
    /\ req' = Request("contact", method, 0, NoForm)
    /\ resp' = IF method = "POST"
               THEN IF sent THEN Redirect("contact", "Your message is sent successfully")
                    ELSE Fault
               ELSE Render("contact.html", "")
    /\ UNCHANGED <<users, posts, comments, session, pending>>

add_new_post(method, form, day) ==
    /\ IsIdle
    /\ req' = RequestOn(day, "add_new_post", method, 0, form)
    /\ IF ~admin_only
       THEN /\ resp' = Abort403
            /\ UNCHANGED posts
       ELSE IF validate_on_submit(method, CreatePostFormValid(form))
            THEN LET new_post ==
                         [id |-> NextId(posts), author_id |-> current_user,
                          title |-> form.title, subtitle |-> form.subtitle,
                          date |-> strftime(day), body |-> form.body,
                          img_url |-> form.img_url]
                 IN  IF TitleUnique(form.title, NULL)
                     THEN /\ Cardinality(posts) < MaxPosts
                          /\ NextId(posts) <= MaxPosts
                          /\ posts' = posts \cup {new_post}
                          /\ resp' = Redirect("get_all_posts", "")
                     ELSE /\ resp' = Fault
                          /\ UNCHANGED posts
            ELSE /\ resp' = Render("make-post.html", "")
                 /\ UNCHANGED posts
    /\ UNCHANGED <<users, comments, session, pending>>

edit_post(method, post_id, form, day) ==
    /\ IsIdle
    /\ req' = RequestOn(day, "edit_post", method, post_id, form)
    /\ IF ~admin_only
       THEN /\ resp' = Abort403
            /\ UNCHANGED posts
       ELSE IF post_id \notin Ids(posts)
            THEN /\ resp' = Fault
                 /\ UNCHANGED posts
            ELSE LET post == Get(posts, post_id)
                     edited == Edited(post, form, day)
                 IN  IF validate_on_submit(method, CreatePostFormValid(form))
                     THEN IF TitleUnique(form.title, post.id)
                          THEN /\ posts' = (posts \ {post}) \cup {edited}
                               /\ resp' = RedirectPost(post.id)
                          ELSE /\ resp' = Fault
                               /\ UNCHANGED posts
                     ELSE /\ resp' = Render("make-post.html", "")
                          /\ UNCHANGED posts
    /\ UNCHANGED <<users, comments, session, pending>>

delete_post(post_id) ==
    /\ IsIdle
    /\ req' = Request("delete_post", "GET", post_id, NoForm)
    /\ IF ~admin_only
       THEN /\ resp' = Abort403
            /\ UNCHANGED <<posts, comments>>
       ELSE IF post_id \notin Ids(posts)
            THEN /\ resp' = Fault
                 /\ UNCHANGED <<posts, comments>>
            ELSE /\ posts' = posts \ {Get(posts, post_id)}
                 /\ comments' = Orphaned(comments, post_id)
                 /\ resp' = Redirect("get_all_posts", "")
    /\ UNCHANGED <<users, session, pending>>

\* the handler returns and the response is delivered
Return ==
    /\ ~IsIdle
    /\ req' = Idle(IF req.op = "delete_post" /\ resp.status = 302 THEN req.post_id ELSE 0)
    /\ resp' = InProgress
    /\ UNCHANGED <<users, posts, comments, session, pending>>

Next ==
    \/ get_all_posts
    \/ \E method \in Methods :
          \E form \in FormsOf(method, RegisterForms) : register(method, form)
    \/ \E form \in RegisterForms, salt \in Salts : register_commit(form, salt)
    \/ \E method \in Methods :
          \E form \in FormsOf(method, LoginForms) : login(method, form)
    \/ logout
    \/ \E method \in Methods, post_id \in PostIds :
          \E form \in FormsOf(method, CommentForms) : show_post(method, post_id, form)
    \/ about
    \/ \E method \in Methods, sent \in BOOLEAN : contact(method, sent)
    \/ \E method \in Methods :
          \E day \in DaysOf(method), form \in FormsOf(method, CreatePostForms) : add_new_post(method, form, day)
    \/ \E method \in Methods, post_id \in PostIds :
          \E day \in DaysOf(method), form \in FormsOf(method, CreatePostForms) : edit_post(method, post_id, form, day)
    \/ \E post_id \in PostIds : delete_post(post_id)
    \/ Return

Spec == Init /\ [][Next]_vars

(* ============================ properties ============================= *)
AdminOps == {"add_new_post", "edit_post", "delete_post"}

\* the request of the step is a form submission that passed validation
ValidSubmission(r, fieldsValid) == r.method = "POST" /\ fieldsValid

\* C1: for a session whose current user id is not 1, a request to new-post,
\* edit-post or delete-post, for every post id, returns 403 and leaves the
\* three tables and the session unchanged.
C1_NonAdminForbidden ==
    [][(req'.op \in AdminOps /\ session # 1)
         => /\ resp'.status = 403
            /\ UNCHANGED <<users, posts, comments, session>>]_vars

C1_Witness ==
    /\ req.op = "delete_post"
    /\ resp.status = 403
    /\ session \notin {Anonymous, 1}
    /\ req.post_id \notin Ids(posts)
    /\ posts # {}

NoDupEmails == \A u, v \in users : u.email = v.email => u = v

\* C2: no two User rows have the same email, whatever the interleaving of
\* register requests; a valid registration whose email already belongs to a
\* User row creates no row, keeps the session and is redirected to login.
C2_EmailUnique ==
    /\ []NoDupEmails
    /\ [][(/\ req'.op = "register"
           /\ ValidSubmission(req', RegisterFormValid(req'.form))
           /\ \E u \in users : u.email = req'.form.email)
            => /\ users' = users
               /\ session' = session
               /\ pending' = pending
               /\ resp'.status = 302
               /\ resp'.to = "login"]_vars

C2_Witness ==
    /\ req.op = "register"
    /\ ValidSubmission(req, RegisterFormValid(req.form))
    /\ \E u \in users : u.email = req.form.email
    /\ resp.status = 302
    /\ resp.to = "login"
    /\ Cardinality(users) = 1

\* the step is a login with the registered email of user id and a password
\* that hashes, under the stored salt, to the stored hash
LoginStep(id) ==
    /\ req'.op = "login"
    /\ req'.method = "POST"
    /\ \E u \in users :
          /\ u.id = id
          /\ u.email = req'.form.email
          /\ u.password = generate_password_hash(req'.form.password, u.password.salt)

\* the step is a registration that creates user id
RegisterStep(id) ==
    /\ req'.op = "register_commit"
    /\ id \notin Ids(users)
    /\ \E u \in users' : u.id = id /\ u.email = req'.form.email

SessionStep(id) == LoginStep(id) \/ RegisterStep(id)

\* C3 as stated: the only transitions are Anonymous -> Authenticated(u), by
\* a successful login or registration, and Authenticated(u) -> Anonymous, by
\* logout; every other request leaves the session as it was.
C3_ExactTransitions ==
    [][/\ (session' # session /\ session' # Anonymous)
            => (session = Anonymous /\ SessionStep(session'))
       /\ (session' # session /\ session' = Anonymous) => req'.op = "logout"]_vars

\* C3 amended: the session becomes Authenticated(u), from Anonymous or from
\* another Authenticated(v), only by a successful login as u or a registration
\* that creates u; it becomes Anonymous only by logout; every other request,
\* a login with a wrong password or an unknown email included, keeps it.
C3_SessionTransitions ==
    [][/\ (session' # session /\ session' # Anonymous) => SessionStep(session')
       /\ (session' # session /\ session' = Anonymous) => req'.op = "logout"]_vars

C3_Witness ==
    /\ req.op = "login"
    /\ resp.status = 302
    /\ session = 2
    /\ \E u \in users : u.id = session /\ u.email = req.form.email

\* C4: a valid comment submission by an Anonymous session on an existing
\* post creates no Comment row, leaves the three tables unchanged and is
\* redirected to register.
C4_AnonymousComment ==
    [][(/\ req'.op = "show_post"
        /\ ValidSubmission(req', CommentFormValid(req'.form))
        /\ session = Anonymous
        /\ req'.post_id \in Ids(posts))
         => /\ UNCHANGED <<users, posts, comments>>
            /\ resp'.status = 302
            /\ resp'.to = "register"]_vars

C4_Witness ==
    /\ req.op = "show_post"
    /\ ValidSubmission(req, CommentFormValid(req.form))
    /\ session = Anonymous
    /\ req.post_id \in Ids(posts)
    /\ resp.to = "register"

\* C5: every Comment row, in the step that creates it, references a User row
\* that exists and a BlogPost row that exists.
C5_CommentReferences ==
    [][\A cm \in comments' :
          cm.id \notin Ids(comments)
            => cm.user_id \in Ids(users') /\ cm.blog_id \in Ids(posts')]_vars

\* C6: a valid edit-post submission by the administrator on an existing post
\* keeps the post's id, author and date, every other BlogPost row, and all
\* User and Comment rows.
C6_EditFrame ==
    [][(/\ req'.op = "edit_post"
        /\ ValidSubmission(req', CreatePostFormValid(req'.form))
        /\ session = 1
        /\ req'.post_id \in Ids(posts))
         => /\ UNCHANGED <<users, comments>>
            /\ Ids(posts') = Ids(posts)
            /\ \A p \in posts :
                  IF p.id = req'.post_id
                  THEN \E q \in posts' :
                          q.id = p.id /\ q.author_id = p.author_id /\ q.date = p.date
                  ELSE p \in posts']_vars

C6_Witness ==
    /\ req.op = "edit_post"
    /\ resp.status = 302
    /\ Cardinality(posts) = 2
    /\ \E p \in posts :
          p.id = req.post_id /\ p.title = req.form.title /\ p.date = strftime(0) /\ req.day = 1

\* C7: a registration submission with an unregistered email whose password
\* differs from its confirmation creates no User row, keeps the session and
\* re-renders the registration form.
C7_PasswordMismatch ==
    [][(/\ req'.op = "register"
        /\ req'.method = "POST"
        /\ \A u \in users : u.email # req'.form.email
        /\ req'.form.password # req'.form.confirm_password)
         => /\ users' = users
            /\ session' = session
            /\ pending' = pending
            /\ resp'.status = 200
            /\ resp'.to = "register.html"]_vars

C7_Witness ==
    /\ req.op = "register"
    /\ ValidSubmission(req, RegisterFormValid(req.form))
    /\ \A u \in users : u.email # req.form.email
    /\ req.form.password # req.form.confirm_password
    /\ resp.status = 200
    /\ resp.to = "register.html"
    /\ users # {}

\* C8: when the administrator requests delete-post for the same post id
\* twice, the second request ends like the first, in the redirect to the
\* post list, and changes no table.
C8_DeleteTwice ==
    [][(/\ IsIdle
        /\ req.post_id # 0
        /\ session = 1
        /\ req'.op = "delete_post"
        /\ req'.post_id = req.post_id)
         => /\ resp'.status = 302
            /\ resp'.to = "get_all_posts"
            /\ UNCHANGED <<users, posts, comments>>]_vars

\* C9 as stated: once a Comment row is created, every later state has the
\* row with the same text, user reference and post reference.
C9_CommentsImmutable == [][\A cm \in comments : cm \in comments']_vars

\* C9 amended: a Comment row is never deleted and its text and user
\* reference never change; its post reference changes only when the
\* administrator deletes its parent post, which sets the reference to null.
C9_CommentsKept ==
    [][\A cm \in comments :
          \E cm2 \in comments' :
             /\ cm2.id = cm.id
             /\ cm2.comment = cm.comment
             /\ cm2.user_id = cm.user_id
             /\ \/ cm2.blog_id = cm.blog_id
                \/ /\ cm2.blog_id = NULL
                   /\ req'.op = "delete_post"
                   /\ req'.post_id = cm.blog_id
                   /\ session = 1]_vars

C9_Witness ==
    /\ req.op = "delete_post"
    /\ resp.status = 302
    /\ \E cm \in comments : cm.blog_id = NULL /\ cm.user_id = 2

\* C10: every BlogPost row's author is user id 1: the BlogPost table changes
\* only in steps of a session Authenticated as user 1, new-post stamps the
\* current user as author, and no step changes the author of a post.
C10_AuthorIsAdmin ==
    /\ [](\A p \in posts : p.author_id = 1 /\ 1 \in Ids(users))
    /\ [][/\ posts' # posts => (session = 1 /\ req'.op \in AdminOps)
          /\ \A q \in posts' :
                IF q.id \in Ids(posts)
                THEN \A p \in posts : p.id = q.id => q.author_id = p.author_id
                ELSE q.author_id = session /\ req'.op = "add_new_post"]_vars

C10_Witness ==
    /\ req.op = "add_new_post"
    /\ resp.status = 302
    /\ Cardinality(users) = 2
    /\ Cardinality(posts) = 2
    /\ \A p \in posts : p.author_id = 1

====
